---- MODULE Spec2Model ----
(***************************************************************************)
(* Model of the CDC subscriber of src/main.py: a Flask endpoint that       *)
(* receives Pub/Sub push messages carrying Debezium change events and      *)
(* applies them to a BigQuery table with MERGE / DELETE statements.        *)
(*                                                                         *)
(* Requests are handled by concurrent invocations of index(); the only     *)
(* shared state is the warehouse table and the module-level bq_client.     *)
(* An invocation runs locally (decode, validate, build the query) up to    *)
(* the blocking warehouse call, the warehouse executes the statement       *)
(* atomically, and the invocation then returns its HTTP status.            *)
(***************************************************************************)
EXTENDS Integers, Sequences, FiniteSets, TLC

(***************************************************************************)
(* Bounds of the model.                                                    *)
(***************************************************************************)
NumKeys == 2
NumHandlers == 2
MaxOffset == 2

Keys == 1..NumKeys
Handlers == 1..NumHandlers

(***************************************************************************)
(* Python values.  A dict is a function whose domain is the set of keys    *)
(* present; None is a value of its own.  Strings are sequences of          *)
(* characters so that their interpolation into SQL text can be modelled.   *)
(***************************************************************************)
None == [none |-> TRUE]
EmptyDict == <<>>
OpNone == "None"
QuoteChar == "'"

StrA == <<"a">>
StrB == <<"b">>
StrQ == <<"o", QuoteChar, "b">>

Row(fn, ln, em) == [first_name |-> fn, last_name |-> ln, email |-> em]

\* Rows the source database can hold (column values of a customers row).
Rows == {Row(StrA, StrB, StrA), Row(StrA, StrB, StrB), Row(StrQ, StrB, StrA)}

\* The `before` / `after` dict of a Debezium payload.
RowData(k, r) ==
    [id |-> k, first_name |-> r.first_name, last_name |-> r.last_name, email |-> r.email]
KeyOnly(k) == [id |-> k]

\* Debezium op codes: create, update, delete, and 'r' (snapshot read), which
\* the handler does not name.
Ops == {"c", "u", "d", "r"}

Payload(op, before, after) == [op |-> op, before |-> before, after |-> after]

\* Change events the source emits for the customers table: an insert, an
\* update or a delete of a row, streamed from the source's log.
Events ==
    {Payload(op, None, RowData(k, r)) : op \in {"c", "u"}, k \in Keys, r \in Rows}
        \cup {Payload("d", KeyOnly(k), None) : k \in Keys}

\* Snapshot reads ('r') describe rows that predate the log: they carry no
\* log offset.
SnapshotPayloads ==
    {Payload("r", None, RowData(1, r)) : r \in {Row(StrA, StrB, StrA), Row(StrQ, StrB, StrA)}}

\* Payloads that lack `op` or the row data their operation needs.
MalformedPayloads ==
    { Payload(OpNone, None, RowData(1, Row(StrA, StrB, StrA))),
      Payload("c", None, None),
      Payload("u", None, EmptyDict),
      Payload("d", None, None),
      Payload("d", None, RowData(1, Row(StrA, StrB, StrA))),
      Payload("d", [first_name |-> StrA], None),
      Payload("c", None, [first_name |-> StrA, last_name |-> StrB, email |-> StrA]),
      Payload("u", None, [id |-> 1, first_name |-> StrA, last_name |-> StrB]) }

(***************************************************************************)
(* HTTP requests.  shape names how far the request is well formed:         *)
(*   NoBody       request.get_json() is None                               *)
(*   EmptyBody    the body is the empty JSON object                        *)
(*   NoMessage    a JSON object without a "message" field                  *)
(*   NoData       message without a "data" field                           *)
(*   BadBase64    data is not valid base64                                 *)
(*   BadUtf8      the decoded bytes are not UTF-8                          *)
(*   BadJson      the text is not JSON                                     *)
(*   JsonNumber   the text is a JSON number                                *)
(*   JsonList     the text is a JSON array                                 *)
(*   NoPayload    a JSON object without a "payload" key                    *)
(*   PayloadNull  {"payload": null}                                        *)
(*   Event        {"payload": {...}}                                       *)
(* off is the source offset of the change event (0: none).                 *)
(***************************************************************************)
Shapes == {"NoBody", "EmptyBody", "NoMessage", "NoData", "BadBase64", "BadUtf8",
           "BadJson", "JsonNumber", "JsonList", "NoPayload", "PayloadNull", "Event"}

Request(shape, payload, off) == [shape |-> shape, payload |-> payload, off |-> off]
NoRequest == Request("None", None, 0)

\* Requests that do not carry a change event of the source log.
OtherRequests ==
    {Request(s, None, 0) : s \in Shapes \ {"Event"}}
        \cup {Request("Event", p, 0) : p \in MalformedPayloads \cup SnapshotPayloads}

(***************************************************************************)
(* SQL text.  run_bq_merge interpolates each column value between single   *)
(* quotes; the warehouse reads the literal back up to the first quote      *)
(* after the opening one.                                                  *)
(***************************************************************************)
SqlString(v) == <<QuoteChar>> \o v \o <<QuoteChar>>

WellFormedLiteral(txt) ==
    /\ Len(txt) >= 2
    /\ txt[1] = QuoteChar
    /\ txt[Len(txt)] = QuoteChar
    /\ \A i \in 2..(Len(txt) - 1) : txt[i] # QuoteChar

LiteralValue(txt) == SubSeq(txt, 2, Len(txt) - 1)

NoStmt == [kind |-> "NONE"]

\* Outcome of the local part of a call: the statement to run, or the
\* exception raised while building it.
Built(stmt) == [exc |-> "none", stmt |-> stmt]
Raised(exc) == [exc |-> exc, stmt |-> NoStmt]

\* run_bq_delete up to the warehouse call: data["id"] raises KeyError.
run_bq_delete(data) ==
    IF "id" \in DOMAIN data
    THEN Built([kind |-> "DELETE", id |-> data.id])
    ELSE Raised("KeyError")

\* run_bq_merge reading the columns with a default instead of data[...].
run_bq_merge_unchecked(data) ==
    LET col(c) == IF c \in DOMAIN data THEN data[c] ELSE <<"N", "o", "n", "e">>
    IN  Built([kind |-> "MERGE", id |-> IF "id" \in DOMAIN data THEN data.id ELSE 0,
               first_name |-> SqlString(col("first_name")),
               last_name |-> SqlString(col("last_name")),
               email |-> SqlString(col("email"))])

\* run_bq_merge up to the warehouse call: the f-string reads the four columns.
run_bq_merge(data) ==
    IF {"id", "first_name", "last_name", "email"} \subseteq DOMAIN data
    THEN Built([kind |-> "MERGE", id |-> data.id,
                first_name |-> SqlString(data.first_name),
                last_name |-> SqlString(data.last_name),
                email |-> SqlString(data.email)])
    ELSE Raised("KeyError")

(***************************************************************************)
(* The warehouse.  A table is a function from the ids present to rows.     *)
(***************************************************************************)
Executed(t) == [err |-> "none", table |-> t]
Rejected(t) == [err |-> "SqlError", table |-> t]

\* A DELETE that reports an error when no row matches.
DeleteEffectStrict(t, stmt) ==
    IF stmt.id \in DOMAIN t
    THEN Executed([k \in DOMAIN t \ {stmt.id} |-> t[k]])
    ELSE Rejected(t)

\* A DELETE without its WHERE clause: every row goes.
DeleteEffectAll(t, stmt) == Executed(<<>>)

\* DELETE FROM T WHERE id = k: zero matching rows is not an error.
DeleteEffect(t, stmt) ==
    Executed([k \in DOMAIN t \ {stmt.id} |-> t[k]])

\* A MERGE whose UPDATE reads last_name from the target row's first_name
\* (T.first_name written for S.last_name).
MergeEffectStale(t, stmt) ==
    LET S == Row(LiteralValue(stmt.first_name), LiteralValue(stmt.last_name),
                 LiteralValue(stmt.email))
    IN  IF stmt.id \in DOMAIN t
        THEN Executed([t EXCEPT ![stmt.id] =
                 [@ EXCEPT !.first_name = S.first_name,
                           !.last_name = t[stmt.id].first_name,
                           !.email = S.email]])
        ELSE Executed([k \in DOMAIN t \cup {stmt.id} |->
                 IF k = stmt.id THEN S ELSE t[k]])

\* MERGE ... WHEN MATCHED THEN UPDATE SET ... WHEN NOT MATCHED THEN INSERT.
MergeEffect(t, stmt) ==
    LET S == Row(LiteralValue(stmt.first_name), LiteralValue(stmt.last_name),
                 LiteralValue(stmt.email))
    IN  IF stmt.id \in DOMAIN t
        THEN Executed([t EXCEPT ![stmt.id] =
                 [@ EXCEPT !.first_name = S.first_name,
                           !.last_name = S.last_name,
                           !.email = S.email]])
        ELSE Executed([k \in DOMAIN t \cup {stmt.id} |->
                 IF k = stmt.id THEN S ELSE t[k]])

\* bq_client.query(query).result() on a reachable warehouse.
Execute(t, stmt) ==
    IF stmt.kind = "DELETE"
    THEN DeleteEffect(t, stmt)
    ELSE IF /\ WellFormedLiteral(stmt.first_name)
            /\ WellFormedLiteral(stmt.last_name)
            /\ WellFormedLiteral(stmt.email)
         THEN MergeEffect(t, stmt)
         ELSE Rejected(t)

(***************************************************************************)
(* index() up to the warehouse call or the return statement.               *)
(***************************************************************************)
Falsy(data) == data = None \/ DOMAIN data = {}

Return(status, outcome) ==
    [pc |-> "ret", status |-> status, outcome |-> outcome, stmt |-> NoStmt]
Call(stmt) ==
    [pc |-> "query", status |-> 0, outcome |-> "none", stmt |-> stmt]

\* Lines 49-66: the payload is a dict.
HandlePayload(payload) ==
    LET op == payload.op
        data == IF op # "d" THEN payload.after ELSE payload.before
    IN  IF Falsy(data) \/ op = OpNone
        THEN Return(204, "IgnoredUnparsed")
        ELSE LET built == IF op = "d" THEN run_bq_delete(data) ELSE run_bq_merge(data)
             IN  IF built.exc = "none"
                 THEN Call(built.stmt)
                 ELSE Return(200, built.exc)

\* index() reading payload_data["payload"] without the test of line 45: a
\* document without the key raises KeyError.
IndexLocalNoPayloadTest(client, req) ==
    IF ~client THEN Return(200, "ClientNone")
    ELSE IF req.shape \in {"NoBody", "EmptyBody", "NoMessage"} THEN Return(400, "BadRequest")
    ELSE IF req.shape = "NoData" THEN Return(200, "KeyError")
    ELSE IF req.shape = "BadBase64" THEN Return(200, "Base64Error")
    ELSE IF req.shape = "BadUtf8" THEN Return(200, "UnicodeDecodeError")
    ELSE IF req.shape = "BadJson" THEN Return(200, "JSONDecodeError")
    ELSE IF req.shape \in {"JsonNumber", "JsonList"} THEN Return(200, "TypeError")
    ELSE IF req.shape = "NoPayload" THEN Return(200, "KeyError")
    ELSE IF req.shape = "PayloadNull" THEN Return(200, "AttributeError")
    ELSE HandlePayload(req.payload)

\* index() testing the envelope before bq_client.
IndexLocalEnvelopeFirst(client, req) ==
    IF req.shape \in {"NoBody", "EmptyBody", "NoMessage"} THEN Return(400, "BadRequest")
    ELSE IF ~client THEN Return(200, "ClientNone")
    ELSE IF req.shape = "NoData" THEN Return(200, "KeyError")
    ELSE IF req.shape = "BadBase64" THEN Return(200, "Base64Error")
    ELSE IF req.shape = "BadUtf8" THEN Return(200, "UnicodeDecodeError")
    ELSE IF req.shape = "BadJson" THEN Return(200, "JSONDecodeError")
    ELSE IF req.shape = "JsonNumber" THEN Return(200, "TypeError")
    ELSE IF req.shape \in {"JsonList", "NoPayload"} THEN Return(204, "IgnoredNoPayload")
    ELSE IF req.shape = "PayloadNull" THEN Return(200, "AttributeError")
    ELSE HandlePayload(req.payload)

\* Lines 25-74.
IndexLocal(client, req) ==
    IF ~client THEN Return(200, "ClientNone")
    ELSE IF req.shape \in {"NoBody", "EmptyBody", "NoMessage"} THEN Return(400, "BadRequest")
    ELSE IF req.shape = "NoData" THEN Return(200, "KeyError")
    ELSE IF req.shape = "BadBase64" THEN Return(200, "Base64Error")
    ELSE IF req.shape = "BadUtf8" THEN Return(200, "UnicodeDecodeError")
    ELSE IF req.shape = "BadJson" THEN Return(200, "JSONDecodeError")
    ELSE IF req.shape = "JsonNumber" THEN Return(200, "TypeError")
    ELSE IF req.shape \in {"JsonList", "NoPayload"} THEN Return(204, "IgnoredNoPayload")
    ELSE IF req.shape = "PayloadNull" THEN Return(200, "AttributeError")
    ELSE HandlePayload(req.payload)

(***************************************************************************)
(* State.                                                                  *)
(***************************************************************************)
VARIABLES
    bq_client,  \* TRUE: bigquery.Client() was constructed; FALSE: bq_client is None
    table,      \* the customers table
    topic,      \* change events published by the source, by offset
    hs,         \* per invocation of index(): position, request, result
    applied,    \* offsets of the events whose statement the warehouse executed
    lastStmt    \* the statement the warehouse executed last

vars == <<bq_client, table, topic, hs, applied, lastStmt>>

Idle == [pc |-> "idle", req |-> NoRequest, status |-> 0, outcome |-> "none", stmt |-> NoStmt]

EmptyTable == <<>>

Init ==
    /\ bq_client \in BOOLEAN
    /\ table = EmptyTable
    /\ topic = <<>>
    /\ hs = [h \in Handlers |-> Idle]
    /\ applied = {}
    /\ lastStmt = NoStmt

\* The key a change event is about.
EventKey(p) == IF p.op = "d" THEN p.before.id ELSE p.after.id

TopicRequests == {Request("Event", topic[o], o) : o \in DOMAIN topic}

\* The source row of key k exists after the changes logged so far.
InSource(k) ==
    LET offs == {o \in DOMAIN topic : EventKey(topic[o]) = k}
    IN  offs # {} /\ topic[CHOOSE o \in offs : \A q \in offs : q <= o].op # "d"

\* The source commits a change (an insert of a new row, an update or a delete
\* of an existing one); Debezium publishes it with the next offset.
Publish(e) ==
    /\ Len(topic) < MaxOffset
    /\ (e.op = "c") = ~InSource(EventKey(e))
    /\ topic' = Append(topic, e)
    /\ UNCHANGED <<bq_client, table, hs, applied, lastStmt>>

\* Pub/Sub pushes a message (first delivery or redelivery); the invocation
\* runs up to its warehouse call or its return statement.
Deliver(h, req) ==
    /\ hs[h].pc = "idle"
    /\ LET r == IndexLocal(bq_client, req)
       IN  hs' = [hs EXCEPT ![h] = [pc |-> r.pc, req |-> req, status |-> r.status,
                                    outcome |-> r.outcome, stmt |-> r.stmt]]
    /\ UNCHANGED <<bq_client, table, topic, applied, lastStmt>>

\* The warehouse executes the statement of invocation h.
Query(h) ==
    /\ hs[h].pc = "query"
    /\ LET res == Execute(table, hs[h].stmt)
       IN  IF res.err = "none"
           THEN /\ table' = res.table
                /\ hs' = [hs EXCEPT ![h].pc = "ret", ![h].status = 204,
                                    ![h].outcome = "Applied"]
                /\ applied' = applied \cup ({hs[h].req.off} \ {0})
                /\ lastStmt' = hs[h].stmt
           ELSE /\ hs' = [hs EXCEPT ![h].pc = "ret", ![h].status = 200,
                                    ![h].outcome = res.err]
                /\ UNCHANGED <<table, applied, lastStmt>>
    /\ UNCHANGED <<bq_client, topic>>

\* A handler that swallows the exception of the warehouse call and falls
\* through to the final return.
QueryFaultSwallowed(h) ==
    /\ hs[h].pc = "query"
    /\ hs' = [hs EXCEPT ![h].pc = "ret", ![h].status = 204, ![h].outcome = "Transient"]
    /\ UNCHANGED <<bq_client, table, topic, applied, lastStmt>>

\* The warehouse call fails for a transient reason (network, throttling,
\* concurrent-update conflict): .result() raises and nothing is applied.
QueryFault(h) ==
    /\ hs[h].pc = "query"
    /\ hs' = [hs EXCEPT ![h].pc = "ret", ![h].status = 200, ![h].outcome = "Transient"]
    /\ UNCHANGED <<bq_client, table, topic, applied, lastStmt>>

\* The HTTP response is sent; the worker is free again.
Respond(h) ==
    /\ hs[h].pc = "ret"
    /\ hs' = [hs EXCEPT ![h] = Idle]
    /\ UNCHANGED <<bq_client, table, topic, applied, lastStmt>>

Next ==
    \/ \E e \in Events : Publish(e)
    \/ \E h \in Handlers, req \in TopicRequests \cup OtherRequests : Deliver(h, req)
    \/ \E h \in Handlers : Query(h)
    \/ \E h \in Handlers : QueryFault(h)
    \/ \E h \in Handlers : Respond(h)

Spec == Init /\ [][Next]_vars

(***************************************************************************)
(* The same program with the messages pushed one at a time: a message is   *)
(* delivered only when no other invocation is running.                     *)
(***************************************************************************)
AllIdle == \A h \in Handlers : hs[h].pc = "idle"

DeliverSeq(h, req) == AllIdle /\ Deliver(h, req)

SeqNext ==
    \/ \E e \in Events : Publish(e)
    \/ \E h \in Handlers, req \in TopicRequests \cup OtherRequests : DeliverSeq(h, req)
    \/ \E h \in Handlers : Query(h)
    \/ \E h \in Handlers : QueryFault(h)
    \/ \E h \in Handlers : Respond(h)

SeqSpec == Init /\ [][SeqNext]_vars

(***************************************************************************)
(* What an invocation leaves behind besides its response: the lines it     *)
(* printed.  index() writes to no other sink.  message: the line shows the *)
(* message's content; reason: the line says why processing stopped.        *)
(***************************************************************************)
Line(n, message, reason) == [line |-> n, message |-> message, reason |-> reason]

Printed(inv) ==
    LET running == {Line(59, TRUE, FALSE),
                    Line(IF inv.stmt.kind = "DELETE" THEN 86 ELSE 110, TRUE, FALSE)}
    IN  CASE inv.outcome = "ClientNone" -> {Line(27, FALSE, TRUE)}
          [] inv.outcome = "BadRequest" -> {Line(34, FALSE, TRUE)}
          [] inv.outcome = "IgnoredNoPayload" -> {Line(46, TRUE, TRUE)}
          [] inv.outcome = "IgnoredUnparsed" -> {Line(56, TRUE, TRUE)}
          [] inv.outcome = "JSONDecodeError" -> {Line(69, TRUE, TRUE)}
          [] inv.outcome = "Applied" ->
                running \cup {Line(IF inv.stmt.kind = "DELETE" THEN 88 ELSE 112, FALSE, FALSE)}
          [] inv.outcome \in {"SqlError", "Transient"} ->
                running \cup {Line(73, FALSE, TRUE)}
          [] inv.outcome = "KeyError" /\ inv.req.shape = "Event" ->
                {Line(59, TRUE, FALSE), Line(73, FALSE, TRUE)}
          [] inv.outcome = "none" -> {}
          [] OTHER -> {Line(73, FALSE, TRUE)}

(***************************************************************************)
(* Vocabulary of the properties.                                           *)
(***************************************************************************)
\* Statuses Pub/Sub takes as an acknowledgement of a push delivery.
AckStatuses == {200, 204}

Columns == {"id", "first_name", "last_name", "email"}

\* A create/update event: op other than 'd' and an `after` row with all columns.
ValidUpsert(p) ==
    /\ p.op \notin {"d", OpNone}
    /\ p.after # None
    /\ Columns \subseteq DOMAIN p.after

\* A delete event: op 'd' and a `before` row carrying id.
ValidDelete(p) ==
    /\ p.op = "d"
    /\ p.before # None
    /\ "id" \in DOMAIN p.before

ValidEvent(req) ==
    req.shape = "Event" /\ (ValidUpsert(req.payload) \/ ValidDelete(req.payload))

\* A decodable message whose payload lacks op or the row data of its operation.
MalformedEvent(req) ==
    req.shape = "Event" /\ ~ValidUpsert(req.payload) /\ ~ValidDelete(req.payload)

\* Invocation h has just received the result of its warehouse call.
QueryReturns(h) == hs[h].pc = "query" /\ hs'[h].pc = "ret"

\* C1: of two overlapping invocations for the same key, the one carrying the
\* later source offset never has its mutation applied while the mutation of
\* the earlier offset has neither completed now nor been applied before.
C1_PerKeyOrder ==
    \A h1, h2 \in Handlers :
        ( /\ hs[h1].pc # "idle" /\ hs[h2].pc # "idle"
          /\ hs[h1].req.off > 0 /\ hs[h1].req.off < hs[h2].req.off
          /\ EventKey(hs[h1].req.payload) = EventKey(hs[h2].req.payload)
          /\ hs[h1].req.off \notin applied
          /\ hs[h2].outcome = "Applied" )
        => hs[h1].pc = "ret"

C3_DeleteAbsentNoop ==
    [][\A h \in Handlers :
          ( /\ QueryReturns(h) /\ hs[h].stmt.kind = "DELETE"
            /\ hs[h].stmt.id \notin DOMAIN table
            /\ hs'[h].outcome # "Transient" )
          => /\ table' = table
             /\ hs'[h].outcome = "Applied"
             /\ hs'[h].status = 204]_vars

\* C3 witness: the duplicate delivery of a delete that was already applied is
\* about to run against a table without the row.
C3_Witness ==
    \E h \in Handlers :
        /\ hs[h].pc = "query"
        /\ hs[h].stmt.kind = "DELETE"
        /\ hs[h].req.off \in applied
        /\ hs[h].stmt.id \notin DOMAIN table

\* The row of the table an event asks for: its `after` columns.
AfterRow(p) == Row(p.after.first_name, p.after.last_name, p.after.email)

\* C4: when a valid event has been processed with no other invocation
\* running, the table holds for its key exactly what the event says: the
\* `after` columns of a create/update, no row after a delete.
C4_LastWriterWins ==
    \A h \in Handlers :
        ( /\ hs[h].pc = "ret"
          /\ ValidEvent(hs[h].req)
          /\ hs[h].req.payload.op \in {"c", "u", "d"}
          /\ bq_client
          /\ hs[h].outcome # "Transient" )
        => LET p == hs[h].req.payload
           IN  IF p.op = "d"
               THEN EventKey(p) \notin DOMAIN table
               ELSE /\ EventKey(p) \in DOMAIN table
                    /\ table[EventKey(p)] = AfterRow(p)

\* C5: the warehouse call of a redelivered event, one whose statement was
\* already executed, leaves the table exactly as it was.
C5_ReplayNoEffect ==
    [][\A h \in Handlers :
          (QueryReturns(h) /\ hs[h].req.off \in applied) => table' = table]_vars

\* C6: an invocation that received a malformed event never issues a
\* statement, changes the table in none of its steps, and answers with a
\* success status.
C6_MalformedNeverApplied ==
    [][\A h \in Handlers :
          MalformedEvent(hs'[h].req)
          => /\ hs'[h].pc = "ret"
             /\ hs'[h].stmt = NoStmt
             /\ hs'[h].status \in AckStatuses
             /\ hs'[h] # hs[h] => table' = table]_vars

\* C6 witness: with rows in the table, an event whose `after` lacks a column
\* was answered 200 after the KeyError raised while building the statement.
C6_Witness ==
    \E h \in Handlers :
        /\ bq_client
        /\ DOMAIN table # {}
        /\ MalformedEvent(hs[h].req)
        /\ hs[h].req.payload.op # "d"
        /\ hs[h].pc = "ret"
        /\ hs[h].outcome = "KeyError"

\* A dead-letter record: something written that holds both the original
\* message and the reason of the failure.
DeadLettered(inv) == \E l \in Printed(inv) : l.message /\ l.reason

DecodeErrors == {"Base64Error", "UnicodeDecodeError", "JSONDecodeError"}

SchemaError(inv) ==
    \/ inv.outcome = "IgnoredUnparsed"
    \/ inv.outcome = "KeyError" /\ inv.req.shape = "Event"

\* C7: a message that ended in a decode error, a schema error or a permanent
\* warehouse failure is acknowledged only with a dead-letter record written.
C7_DeadLetterBeforeAck ==
    \A h \in Handlers :
        ( /\ hs[h].pc = "ret"
          /\ hs[h].status \in AckStatuses
          /\ \/ hs[h].outcome \in DecodeErrors
             \/ SchemaError(hs[h])
             \/ hs[h].outcome = "SqlError" )
        => DeadLettered(hs[h])

\* Errors of the handler itself: the document was decoded, and the code
\* failed on a shape it did not expect.
InternalErrors == {"TypeError", "AttributeError"}

\* C8: an invocation that raised an unexpected internal error does not
\* answer with a success status.
C8_InternalErrorNotAcked ==
    \A h \in Handlers :
        (hs[h].pc = "ret" /\ hs[h].outcome \in InternalErrors)
        => hs[h].status \notin AckStatuses

\* C9: a message whose warehouse call failed transiently is not acknowledged
\* unless its mutation was applied or it was dead-lettered.
C9_NoAckUnapplied ==
    \A h \in Handlers :
        ( /\ hs[h].pc = "ret"
          /\ hs[h].outcome = "Transient"
          /\ hs[h].status \in AckStatuses )
        => DeadLettered(hs[h])

PermanentLocalErrors ==
    {"ClientNone", "KeyError", "Base64Error", "UnicodeDecodeError", "JSONDecodeError",
     "TypeError", "AttributeError", "SqlError"}

\* C10: the status is 204 exactly for an applied or intentionally ignored
\* message, 400 for every request without a JSON body or without a message
\* field, and 200 only for a permanent local error.
C10_StatusMapping ==
    \A h \in Handlers :
        hs[h].pc = "ret"
        => /\ (hs[h].status = 204) =
                  (hs[h].outcome \in {"Applied", "IgnoredNoPayload", "IgnoredUnparsed"})
           /\ hs[h].req.shape \in {"NoBody", "EmptyBody", "NoMessage"} => hs[h].status = 400
           /\ hs[h].status = 200 => hs[h].outcome \in PermanentLocalErrors

\* The op codes the handler names: create, update, delete.
RecognizedOps == {"c", "u", "d"}

C13_PerKeyMutex ==
    \A h1, h2 \in Handlers :
        ( /\ hs[h1].pc = "query" /\ hs[h2].pc = "query"
          /\ hs[h1].req.off > 0
          /\ hs[h1].req.off < hs[h2].req.off )
        => hs[h1].stmt.id # hs[h2].stmt.id

C15_ClientNoneShortCircuit ==
    [][~bq_client =>
          /\ table' = table
          /\ \A h \in Handlers :
                hs'[h].pc # "idle"
                => /\ hs'[h].pc = "ret"
                   /\ hs'[h].status = 200
                   /\ hs'[h].outcome = "ClientNone"
                   /\ hs'[h].stmt = NoStmt]_vars

\* C15 witness: with bq_client None, a valid change event of the log was
\* answered 200 and dropped.
C15_Witness ==
    /\ ~bq_client
    /\ \E h \in Handlers :
          /\ hs[h].pc = "ret"
          /\ hs[h].status = 200
          /\ hs[h].req.off > 0
          /\ ValidEvent(hs[h].req)

\* The envelope has a `message` field.
HasMessage(req) == req.shape \notin {"NoBody", "EmptyBody", "NoMessage", "None"}

\* C16: with bq_client initialised, a request with a `message` field is
\* answered 200 or 204, and 204 after a warehouse call only if the call
\* did not raise.
C16_NeverErrorStatus ==
    \A h \in Handlers :
        (bq_client /\ hs[h].pc = "ret" /\ HasMessage(hs[h].req))
        => /\ hs[h].status \in {200, 204}
           /\ (hs[h].status = 204 /\ hs[h].stmt # NoStmt) => hs[h].outcome = "Applied"

\* C16 witness: the warehouse call of a valid event raised and the request
\* was answered 200.
C16_Witness ==
    \E h \in Handlers :
        /\ bq_client
        /\ hs[h].pc = "ret"
        /\ hs[h].stmt # NoStmt
        /\ hs[h].outcome \in {"Transient", "SqlError"}
        /\ hs[h].status = 200

====
